---- MODULE Spec2Model ----
(***************************************************************************)
(* fioc-server-utils: the server-action dispatcher built by                *)
(* buildIoCServerHandler and the client-side proxies built by              *)
(* createServerControllerProxy (src/unnamed/part_001; the older            *)
(* src/src/common/utils.ts has the same two bodies under the names         *)
(* buildIOCServerHandler / serverFactoryProxy).                            *)
(*                                                                         *)
(* JavaScript values are modelled as strings, symbols as records           *)
(* [reg, key] (reg = the symbol is in the global symbol registry), a       *)
(* possibly-undefined string as a sequence of length 0 or 1, and a settled *)
(* promise as an outcome record [tag, val].                                *)
(***************************************************************************)
EXTENDS Naturals, Sequences, FiniteSets, TLC

\* Number of dispatch / proxy calls that may be in flight in one behaviour.
MaxCalls == 2

Calls == 1..MaxCalls

\* Argument lists the callers pass: they differ in count and in order.
ArgLists == {<<"Ann">>, <<"Bob", "Ann">>}

\* Execution contexts: window defined (client) or not (server).
Contexts == {"client", "server"}

--------------------------------------------------------------------------
(* Symbols and tokens *)

\* createDIToken().as(key): the symbol registered under key (Symbol.for).
SymbolFor(key) == [reg |-> TRUE, key |-> key]

\* Symbol(desc): a fresh symbol outside the global registry.
LocalSymbol(desc) == [reg |-> FALSE, key |-> desc]

\* Symbol.keyFor(sym): <<key>> for a registry symbol, <<>> (undefined) else.
KeyFor(sym) == IF sym.reg THEN <<sym.key>> ELSE <<>>

\* A template literal's rendering of a possibly-undefined string.
Template(opt) == IF opt = <<>> THEN "undefined" ELSE opt[1]

GreetToken == SymbolFor("GreetToken")
SwapToken == SymbolFor("SwapToken")
FailToken == SymbolFor("FailToken")
PurgeToken == SymbolFor("PurgeToken")
ConfigToken == SymbolFor("ConfigToken")
AnonToken1 == LocalSymbol("anon1")
AnonToken2 == LocalSymbol("anon2")
IoCServerHandlerToken == SymbolFor("IoCServerHandlerToken")
NoToken == LocalSymbol("")

\* Key strings a caller of the server action may supply.
Keys ==
    {"GreetToken", "SwapToken", "FailToken", "PurgeToken", "ConfigToken",
     "UNDEFINED"}

--------------------------------------------------------------------------
(* Outcomes of asynchronous calls *)

None == [tag |-> "none", val |-> ""]
Fulfilled(v) == [tag |-> "fulfilled", val |-> v]
Rejected(e) == [tag |-> "rejected", val |-> e]

--------------------------------------------------------------------------
(* The server container and the implementations registered in it *)

Function(impl) == [type |-> "function", impl |-> impl]
Object(impl) == [type |-> "object", impl |-> impl]

\* greet, swap, fail and purge are callables, config is a plain object.
ServerContainer ==
    (GreetToken :> Function("greet")) @@ (SwapToken :> Function("swap"))
    @@ (FailToken :> Function("fail")) @@ (PurgeToken :> Function("purge"))
    @@ (ConfigToken :> Object("config"))

\* The state the swap use case keeps between invocations.
InitialStore == "nobody"

\* args[i], or "undefined" past the end of the list.
Arg(args, i) == IF i <= Len(args) THEN args[i] ELSE "undefined"

\* One invocation impl(...args) with the store at st:
\*   threw = it threw synchronously; out = what it (or its promise) settles
\*   to; st = the store afterwards.
\*   greet = (name) => "Hello, " + name
\*   swap  = async (name) => { old = store; store = name; return old }
\*   fail  = (a, b) => { if (b === undefined) throw ...; return Promise.reject(...) }
\*   purge = () => { store = "nobody"; return "purged" }
Apply(impl, args, st) ==
    CASE impl = "greet" ->
           [threw |-> FALSE, out |-> Fulfilled("Hello, " \o Arg(args, 1)), st |-> st]
      [] impl = "swap" ->
           [threw |-> FALSE, out |-> Fulfilled(st), st |-> Arg(args, 1)]
      [] impl = "fail" ->
           IF Len(args) < 2
           THEN [threw |-> TRUE, out |-> Rejected("fail: too few arguments"), st |-> st]
           ELSE [threw |-> FALSE, out |-> Rejected("fail: " \o args[1]), st |-> st]
      [] impl = "purge" ->
           [threw |-> FALSE, out |-> Fulfilled("purged"), st |-> InitialStore]
      [] OTHER ->
           [threw |-> TRUE, out |-> Rejected("TypeError: resolved is not a function"),
            st |-> st]

\* container.resolve(token): the registered value, or a thrown error.
Resolve(container, token) ==
    IF token \in DOMAIN container
    THEN [ok |-> TRUE, value |-> container[token], err |-> ""]
    ELSE [ok |-> FALSE, value |-> Object("undefined"),
          err |-> "Token Symbol(" \o Template(KeyFor(token)) \o ") not found"]

--------------------------------------------------------------------------
(* buildIoCServerHandler: the dispatcher *)

\* Variant: the token is built from a fixed name instead of tokenKey.
HandlerTokenFixed(tokenKey) == SymbolFor("GreetToken")

\* const token = createDIToken().as(tokenKey)
HandlerToken(tokenKey) == SymbolFor(tokenKey)

\* Variant: the callable check is missing.
HandlerCallableUnchecked(resolved) == TRUE

\* Variant: only callables the client container proxies pass the check.
HandlerCallableListed(resolved) ==
    /\ resolved.type = "function"
    /\ resolved.impl \in {"greet", "swap", "fail"}

\* typeof resolved === "function"
HandlerCallable(resolved) == resolved.type = "function"

\* Variant: the key is passed on with the arguments.
HandlerParamsWithKey(tokenKey, params) == <<tokenKey>> \o params

\* The argument list of resolved(...params).
HandlerParams(tokenKey, params) == params

\* The error thrown when the resolved value is not a function.
InvalidTargetError(tokenKey) ==
    "IoCServerHandler: The provided token Symbol(" \o tokenKey
        \o ") does not resolve to a function."

\* Variant: a rejection of the awaited promise is caught and swallowed.
HandlerAwaitCaught(p) == IF p.tag = "rejected" THEN Fulfilled("undefined") ELSE p

\* return await p: the dispatcher settles as the awaited promise p does.
HandlerAwait(p) == p

\* Variant: the resolved callable is invoked again when its first
\* invocation did not fulfil.
HandlerRetrying(tokenKey, params, st) ==
    LET r == Resolve(ServerContainer, HandlerToken(tokenKey))
    IN  IF ~r.ok
        THEN [resolves |-> 1, invoked |-> <<>>, settled |-> TRUE,
              out |-> Rejected(r.err), st |-> st]
        ELSE IF ~HandlerCallable(r.value)
        THEN [resolves |-> 1, invoked |-> <<>>, settled |-> TRUE,
              out |-> Rejected(InvalidTargetError(tokenKey)), st |-> st]
        ELSE LET a == Apply(r.value.impl, params, st)
                 b == Apply(r.value.impl, params, a.st)
                 e1 == [impl |-> r.value.impl, args |-> params, ret |-> a.out]
                 e2 == [impl |-> r.value.impl, args |-> params, ret |-> b.out]
             IN  IF a.out.tag = "rejected"
                 THEN [resolves |-> 1, invoked |-> <<e1, e2>>,
                       settled |-> b.threw, out |-> b.out, st |-> b.st]
                 ELSE [resolves |-> 1, invoked |-> <<e1>>,
                       settled |-> a.threw, out |-> a.out, st |-> a.st]

\* The synchronous part of one call of the dispatcher, with the store at st:
\*   resolves = container resolutions made, invoked = invocations made,
\*   settled = the dispatcher's promise is already rejected (a throw before
\*   the await), out = that rejection or what the invoked callable settles
\*   to, st = the store afterwards.
Handler(tokenKey, params, st) ==
    LET token == HandlerToken(tokenKey)
        r == Resolve(ServerContainer, token)
    IN  IF ~r.ok
        THEN [resolves |-> 1, invoked |-> <<>>, settled |-> TRUE,
              out |-> Rejected(r.err), st |-> st]
        ELSE IF ~HandlerCallable(r.value)
        THEN [resolves |-> 1, invoked |-> <<>>, settled |-> TRUE,
              out |-> Rejected(InvalidTargetError(tokenKey)), st |-> st]
        ELSE LET passed == HandlerParams(tokenKey, params)
                 a == Apply(r.value.impl, passed, st)
             IN  [resolves |-> 1,
                  invoked |-> <<[impl |-> r.value.impl, args |-> passed,
                                 ret |-> a.out]>>,
                  settled |-> a.threw, out |-> a.out, st |-> a.st]

--------------------------------------------------------------------------
(* createServerControllerProxy: the client-side proxy *)

\* Variant: the environment check is missing.
IsClientUnchecked(ctx) == TRUE

\* typeof window !== "undefined"
IsClient(ctx) == ctx = "client"

\* Variant: the key is rendered as in the error message, without the
\* "UNDEFINED" fallback.
ProxyKeyRendered(token) == Template(KeyFor(token))

\* Symbol.keyFor(token) ?? "UNDEFINED"
ProxyKey(token) == IF KeyFor(token) = <<>> THEN "UNDEFINED" ELSE KeyFor(token)[1]

\* Variant: only the first argument is forwarded.
ProxyForwardFirst(token, args) ==
    <<[key |-> ProxyKey(token), args |-> SubSeq(args, 1, 1)]>>

\* The calls of iocServerAction one proxy call makes: (key, ...args), once.
ProxyForward(token, args) == <<[key |-> ProxyKey(token), args |-> args]>>

\* The error thrown when the proxy runs on the server.
MisusedProxyError(token) ==
    "Server controller proxy called on the server with token ("
        \o Template(KeyFor(token)) \o ")"

\* Variant: the dispatcher's value is awaited but not returned.
ProxyAwaitNoReturn(p) == IF p.tag = "fulfilled" THEN Fulfilled("undefined") ELSE p

\* return await iocServerAction(...): the proxy settles as the dispatcher does.
ProxyAwait(p) == p

\* The descriptor createServerControllerProxy(token) returns.
CreateServerControllerProxy(token) ==
    [token |-> token, dependencies |-> <<IoCServerHandlerToken>>]

--------------------------------------------------------------------------
(* The client container *)

\* Tokens the client container registers a proxy for. PurgeToken is
\* registered on the server only.
Proxied ==
    {GreetToken, SwapToken, FailToken, ConfigToken, AnonToken1, AnonToken2}

\* register(IoCServerHandlerToken, iocServerHandler)
ClientValues == (IoCServerHandlerToken :> Function("iocServerHandler"))

\* registerFactory(createServerControllerProxy(t)) for every proxied t.
ClientFactories == {CreateServerControllerProxy(t) : t \in Proxied}

\* clientContainer.resolve(token) for a proxied token: the factory applied
\* to its resolved dependency, i.e. the proxy closure (token, iocServerAction).
ClientResolve(token) ==
    LET d == CHOOSE f \in ClientFactories : f.token = token
    IN  [token |-> d.token, action |-> ClientValues[d.dependencies[1]]]

--------------------------------------------------------------------------
(* The calls in flight *)

VARIABLES
    calls,   \* per call: its inputs, its position and what it has done
    store    \* the state the swap use case keeps on the server

vars == <<calls, store>>

\* A call not yet made.
\*   kind: "proxy" (a call of a proxy function) or "dispatch" (a call of the
\*         server action by any other caller)
\*   sent: the calls of the server action made for it, oldest first
\*   resolves / invoked: container resolutions and invocations the
\*         dispatcher made for it
\*   pending: what the invoked callable's promise settles to
\*   dres / result: how the dispatcher's promise and the call settled
IdleCall ==
    [kind |-> "none", token |-> NoToken, args |-> <<>>, ctx |-> "client",
     pc |-> "idle", sent |-> <<>>, resolves |-> 0, invoked |-> <<>>,
     pending |-> None, dres |-> None, result |-> None]

Init ==
    /\ calls = [c \in Calls |-> IdleCall]
    /\ store = InitialStore

\* Calls are numbered in the order they are made.
NextToStart(c) ==
    /\ calls[c].pc = "idle"
    /\ \A d \in Calls : d < c => calls[d].pc # "idle"

\* proxy(...args) in context ctx, proxy = clientContainer.resolve(token):
\* on the client the server action is called and awaited, on the server the
\* call rejects at once.
ProxyCall(c, token, args, ctx) ==
    /\ NextToStart(c)
    /\ LET proxy == ClientResolve(token)
       IN  /\ proxy.action = Function("iocServerHandler")
           /\ calls' =
                [calls EXCEPT ![c] =
                    IF IsClient(ctx)
                    THEN [@ EXCEPT !.kind = "proxy", !.token = token,
                                   !.args = args, !.ctx = ctx, !.pc = "sent",
                                   !.sent = ProxyForward(proxy.token, args)]
                    ELSE [@ EXCEPT !.kind = "proxy", !.token = token,
                                   !.args = args, !.ctx = ctx, !.pc = "done",
                                   !.result = Rejected(MisusedProxyError(proxy.token))]]
    /\ UNCHANGED store

\* iocServerHandler(key, ...args) called by any client of the server action.
DispatchCall(c, key, args) ==
    /\ NextToStart(c)
    /\ calls' = [calls EXCEPT ![c] =
                    [@ EXCEPT !.kind = "dispatch", !.args = args, !.pc = "sent",
                              !.sent = <<[key |-> key, args |-> args]>>]]
    /\ UNCHANGED store

\* The dispatcher's promise settles as out: that is the result of a direct
\* call, and what a proxy call is awaiting.
Settle(call, out) ==
    IF call.kind = "proxy"
    THEN [call EXCEPT !.pc = "replied", !.dres = out]
    ELSE [call EXCEPT !.pc = "done", !.dres = out, !.result = out]

\* The dispatcher's body runs on the server up to its await (or its throw).
DispatchRun(c) ==
    /\ calls[c].pc = "sent"
    /\ LET msg == calls[c].sent[1]
           h == Handler(msg.key, msg.args, store)
           ran == [calls[c] EXCEPT !.resolves = @ + h.resolves,
                                   !.invoked = @ \o h.invoked]
       IN  /\ calls' =
                [calls EXCEPT ![c] =
                    IF h.settled
                    THEN Settle(ran, h.out)
                    ELSE [ran EXCEPT !.pc = "awaiting", !.pending = h.out]]
           /\ store' = h.st

\* The invoked callable's promise settles and the dispatcher returns.
TargetSettle(c) ==
    /\ calls[c].pc = "awaiting"
    /\ calls' = [calls EXCEPT ![c] = Settle(@, HandlerAwait(@.pending))]
    /\ UNCHANGED store

\* The server action's reply reaches the proxy, which settles as its await
\* does.
Reply(c) ==
    /\ calls[c].pc = "replied"
    /\ calls' = [calls EXCEPT ![c] =
                    [@ EXCEPT !.pc = "done", !.result = ProxyAwait(calls[c].dres)]]
    /\ UNCHANGED store

Next ==
    \/ \E c \in Calls, t \in Proxied, a \in ArgLists, x \in Contexts :
          ProxyCall(c, t, a, x)
    \/ \E c \in Calls, k \in Keys, a \in ArgLists : DispatchCall(c, k, a)
    \/ \E c \in Calls : DispatchRun(c)
    \/ \E c \in Calls : TargetSettle(c)
    \/ \E c \in Calls : Reply(c)

Spec == Init /\ [][Next]_vars

--------------------------------------------------------------------------
(* Vocabulary of the properties *)

\* The dispatcher's body has run for call c.
Ran(c) == calls[c].sent # <<>> /\ calls[c].pc \in {"awaiting", "replied", "done"}

\* The dispatcher's promise has settled for call c.
Answered(c) == calls[c].sent # <<>> /\ calls[c].pc \in {"replied", "done"}

\* The key and the arguments the dispatcher received for call c.
KeyOf(c) == calls[c].sent[1].key
ParamsOf(c) == calls[c].sent[1].args

\* Server tokens registered with a callable / with anything else.
CallableTokens == {t \in DOMAIN ServerContainer : ServerContainer[t].type = "function"}
PlainTokens == DOMAIN ServerContainer \ CallableTokens

ClientProxyCall(c) == calls[c].kind = "proxy" /\ calls[c].ctx = "client"
ServerProxyCall(c) == calls[c].kind = "proxy" /\ calls[c].ctx = "server"

--------------------------------------------------------------------------
(* C1 *)

\* C1: for every server token T registered with a callable, a dispatcher
\* call with T's key invokes exactly that callable, once, with exactly the
\* arguments it was given, and settles exactly as that invocation did
\* (greet gives "Hello, " + its first argument, untransformed).
C1_PassThrough ==
    \A c \in Calls, t \in CallableTokens :
        (Ran(c) /\ KeyOf(c) = t.key) =>
            /\ Len(calls[c].invoked) = 1
            /\ calls[c].invoked[1].impl = ServerContainer[t].impl
            /\ calls[c].invoked[1].args = ParamsOf(c)
            /\ Answered(c) => calls[c].dres = calls[c].invoked[1].ret
            /\ (Answered(c) /\ t = GreetToken) =>
                   calls[c].dres = Fulfilled("Hello, " \o ParamsOf(c)[1])

C1_Witness ==
    \E c \in Calls :
        /\ calls[c].kind = "dispatch" /\ calls[c].pc = "done"
        /\ KeyOf(c) = "GreetToken" /\ ParamsOf(c) = <<"Bob", "Ann">>
        /\ calls[c].result = Fulfilled("Hello, Bob")

--------------------------------------------------------------------------
(* C2 *)

\* C2: for every server token T registered with a non-callable value, a
\* dispatcher call with T's key resolves once, invokes nothing, never waits
\* on a target and rejects with the "does not resolve to a function" error.
C2_InvalidTarget ==
    \A c \in Calls, t \in PlainTokens :
        (Ran(c) /\ KeyOf(c) = t.key) =>
            /\ calls[c].resolves = 1
            /\ calls[c].invoked = <<>>
            /\ calls[c].pc # "awaiting"
            /\ calls[c].dres =
                 Rejected("IoCServerHandler: The provided token Symbol(" \o t.key
                              \o ") does not resolve to a function.")
            /\ calls[c].pc = "done" => calls[c].result = calls[c].dres

C2_Witness ==
    \E c \in Calls :
        /\ calls[c].pc = "done" /\ calls[c].sent # <<>>
        /\ KeyOf(c) = "ConfigToken"
        /\ calls[c].result.tag = "rejected"
        /\ calls[c].invoked = <<>>

--------------------------------------------------------------------------
(* C3 *)

\* C3: a proxy for a token T with key T.key, called on the client with
\* args, calls the dispatcher exactly once, as (T.key, ...args) with args in
\* the same order and count, and settles as the dispatcher did.
C3_ForwardOnce ==
    \A c \in Calls :
        (ClientProxyCall(c) /\ calls[c].token.reg) =>
            /\ calls[c].sent = <<[key |-> calls[c].token.key, args |-> calls[c].args]>>
            /\ calls[c].pc = "done" => calls[c].result = calls[c].dres

C3_Witness ==
    \E c \in Calls :
        /\ ClientProxyCall(c) /\ calls[c].pc = "done"
        /\ calls[c].token = GreetToken /\ calls[c].args = <<"Bob", "Ann">>
        /\ calls[c].sent = <<[key |-> "GreetToken", args |-> <<"Bob", "Ann">>]>>

--------------------------------------------------------------------------
(* C4 *)

\* C4: a proxy called on the server has rejected with the MisusedProxy
\* error, which names the token's key, and no dispatcher call, resolution
\* or invocation was made for it.
C4_MisusedProxy ==
    \A c \in Calls :
        ServerProxyCall(c) =>
            /\ calls[c].pc = "done"
            /\ calls[c].result.tag = "rejected"
            /\ calls[c].token.reg =>
                 calls[c].result.val =
                     "Server controller proxy called on the server with token ("
                         \o calls[c].token.key \o ")"
            /\ calls[c].sent = <<>>
            /\ calls[c].resolves = 0
            /\ calls[c].invoked = <<>>

C4_Witness ==
    \E c \in Calls :
        /\ ServerProxyCall(c) /\ calls[c].token = GreetToken
        /\ calls[c].result =
             Rejected("Server controller proxy called on the server with token (GreetToken)")

--------------------------------------------------------------------------
(* C5 *)

\* C5: a dispatcher call with key A never invokes the implementation
\* registered under a server token B whose key is not A.
C5_NoCrossResolve ==
    \A c \in Calls :
        calls[c].invoked # <<>> =>
            \A b \in DOMAIN ServerContainer :
                b.key # KeyOf(c) =>
                    \A i \in 1..Len(calls[c].invoked) :
                        calls[c].invoked[i].impl # ServerContainer[b].impl

C5_Witness ==
    \E c \in Calls, d \in Calls :
        /\ c # d
        /\ Ran(c) /\ KeyOf(c) = "SwapToken" /\ calls[c].invoked # <<>>
        /\ Ran(d) /\ KeyOf(d) = "PurgeToken" /\ calls[d].invoked # <<>>

--------------------------------------------------------------------------
(* C6 *)

\* C6: with the dispatcher and createServerControllerProxy(T) registered in
\* the client container and a callable f registered under T on the server,
\* a finished client-side call proxy(...args) has made exactly the
\* invocation f(...args) and settled as that invocation did; greet gives
\* "Hello, Ann" for proxy("Ann").
C6_Transparent ==
    \A c \in Calls, t \in CallableTokens \cap Proxied :
        (ClientProxyCall(c) /\ calls[c].token = t /\ calls[c].pc = "done") =>
            /\ Len(calls[c].invoked) = 1
            /\ calls[c].invoked[1].impl = ServerContainer[t].impl
            /\ calls[c].invoked[1].args = calls[c].args
            /\ calls[c].result = calls[c].invoked[1].ret
            /\ (t = GreetToken /\ calls[c].args = <<"Ann">>) =>
                   calls[c].result = Fulfilled("Hello, Ann")

C6_Witness ==
    \E c \in Calls :
        /\ ClientProxyCall(c) /\ calls[c].token = GreetToken
        /\ calls[c].args = <<"Ann">> /\ calls[c].pc = "done"
        /\ calls[c].result = Fulfilled("Hello, Ann")

--------------------------------------------------------------------------
(* C7 *)

\* C7: a failed resolution (unregistered key) or a throwing / rejecting
\* callable makes the dispatcher reject with that same error, the call that
\* reached the dispatcher (proxy or direct) rejects with it too, and no call
\* makes a second dispatcher call, resolution or invocation.
C7_ErrorsPropagate ==
    \A c \in Calls :
        /\ (Ran(c) /\ SymbolFor(KeyOf(c)) \notin DOMAIN ServerContainer) =>
              /\ calls[c].dres = Rejected("Token Symbol(" \o KeyOf(c) \o ") not found")
              /\ calls[c].invoked = <<>>
        /\ (Answered(c) /\ calls[c].invoked # <<>>
                /\ calls[c].invoked[1].ret.tag = "rejected") =>
              calls[c].dres = calls[c].invoked[1].ret
        /\ (calls[c].pc = "done" /\ calls[c].sent # <<>>
                /\ calls[c].dres.tag = "rejected") =>
              calls[c].result = calls[c].dres
        /\ Len(calls[c].sent) <= 1
        /\ calls[c].resolves <= 1
        /\ Len(calls[c].invoked) <= 1

C7_Witness ==
    \E c \in Calls, d \in Calls :
        /\ ClientProxyCall(c) /\ calls[c].token = FailToken /\ calls[c].pc = "done"
        /\ calls[c].result = Rejected("fail: Bob")
        /\ ClientProxyCall(d) /\ calls[d].token = AnonToken1 /\ calls[d].pc = "done"
        /\ calls[d].result = Rejected("Token Symbol(UNDEFINED) not found")

--------------------------------------------------------------------------
(* C8 *)

\* Values the store takes.
StoreValues == {InitialStore, "Ann", "Bob", "undefined"}

\* The result of impl(...args) is the same whatever the store holds.
StoreFree(impl, args) ==
    \A s1 \in StoreValues, s2 \in StoreValues :
        Apply(impl, args, s1).out = Apply(impl, args, s2).out

\* How dispatch(key, ...args) settles when it is the only call ever made.
AloneOutcome(key, args) ==
    LET t == SymbolFor(key)
    IN  IF t \notin DOMAIN ServerContainer
        THEN Rejected("Token Symbol(" \o key \o ") not found")
        ELSE IF ServerContainer[t].type # "function"
        THEN Rejected("IoCServerHandler: The provided token Symbol(" \o key
                          \o ") does not resolve to a function.")
        ELSE Apply(ServerContainer[t].impl, args, InitialStore).out

\* Every dispatcher call makes its own single resolution and at most one
\* invocation, for its own key and arguments.
OwnResolutionAndInvocation(c) ==
    /\ Ran(c) => calls[c].resolves = 1
    /\ ~Ran(c) => calls[c].resolves = 0 /\ calls[c].invoked = <<>>
    /\ Len(calls[c].invoked) <= 1
    /\ calls[c].invoked # <<>> =>
          /\ calls[c].invoked[1].args = ParamsOf(c)
          /\ calls[c].invoked[1].impl = ServerContainer[SymbolFor(KeyOf(c))].impl

\* C8 as stated: every call resolves and invokes on its own, and every
\* finished call that reached the dispatcher settled as it would have had it
\* run alone.
C8_AsIfAlone ==
    \A c \in Calls :
        /\ OwnResolutionAndInvocation(c)
        /\ (calls[c].pc = "done" /\ calls[c].sent # <<>>) =>
              calls[c].result = AloneOutcome(KeyOf(c), ParamsOf(c))

\* C8 (amended): every call resolves and invokes on its own; a finished call
\* settled as its own invocation did, and as it would have had it run alone
\* unless the callable it invoked reads state that invocations change.
C8_Independent ==
    \A c \in Calls :
        /\ OwnResolutionAndInvocation(c)
        /\ (calls[c].pc = "done" /\ calls[c].invoked # <<>>) =>
              calls[c].result = calls[c].invoked[1].ret
        /\ (calls[c].pc = "done" /\ calls[c].sent # <<>>
                /\ (calls[c].invoked # <<>> =>
                        StoreFree(calls[c].invoked[1].impl, ParamsOf(c)))) =>
              calls[c].result = AloneOutcome(KeyOf(c), ParamsOf(c))

\* A later call has finished while an earlier one is still waiting.
C8_Witness ==
    \E c \in Calls, d \in Calls :
        /\ c < d
        /\ calls[c].pc = "awaiting" /\ KeyOf(c) = "GreetToken"
        /\ calls[d].pc = "done" /\ calls[d].sent # <<>> /\ KeyOf(d) = "GreetToken"
        /\ ParamsOf(c) # ParamsOf(d)
        /\ calls[d].result = AloneOutcome("GreetToken", ParamsOf(d))

--------------------------------------------------------------------------
(* C9 *)

\* C9: a proxy for a token outside the global symbol registry does not fail
\* locally on the client: it calls the dispatcher with the key "UNDEFINED"
\* (so any two such tokens reach the same server key) and settles as the
\* dispatcher does; on the server its error reads "undefined" for the key.
C9_KeylessToken ==
    \A c \in Calls :
        (calls[c].kind = "proxy" /\ ~calls[c].token.reg) =>
            /\ calls[c].ctx = "client" =>
                 /\ calls[c].sent = <<[key |-> "UNDEFINED", args |-> calls[c].args]>>
                 /\ calls[c].pc = "done" => calls[c].result = calls[c].dres
                 /\ \A d \in Calls :
                      (ClientProxyCall(d) /\ ~calls[d].token.reg) => KeyOf(d) = KeyOf(c)
            /\ calls[c].ctx = "server" =>
                 calls[c].result =
                     Rejected("Server controller proxy called on the server with token (undefined)")

C9_Witness ==
    \E c \in Calls, d \in Calls :
        /\ ClientProxyCall(c) /\ calls[c].token = AnonToken1
        /\ ClientProxyCall(d) /\ calls[d].token = AnonToken2
        /\ Answered(c) /\ Answered(d)
        /\ KeyOf(c) = "UNDEFINED" /\ KeyOf(d) = "UNDEFINED"

--------------------------------------------------------------------------
(* C10 *)

\* C10: the dispatcher invokes whatever callable the supplied key resolves
\* to, whether or not the client container registers a proxy for it, and it
\* answers "does not resolve to a function" only for registered values that
\* are not callable.
C10_NoAllowList ==
    \A c \in Calls :
        Ran(c) =>
            /\ calls[c].invoked # <<>> <=> SymbolFor(KeyOf(c)) \in CallableTokens
            /\ (calls[c].pc # "awaiting"
                  /\ calls[c].dres =
                       Rejected("IoCServerHandler: The provided token Symbol("
                                    \o KeyOf(c) \o ") does not resolve to a function."))
                 <=> SymbolFor(KeyOf(c)) \in PlainTokens

C10_Witness ==
    \E c \in Calls :
        /\ calls[c].kind = "dispatch" /\ calls[c].pc = "done"
        /\ KeyOf(c) = "PurgeToken" /\ PurgeToken \notin Proxied
        /\ calls[c].invoked # <<>> /\ calls[c].invoked[1].impl = "purge"
        /\ calls[c].result = Fulfilled("purged")

====
